---------------------------- MODULE Spec2Model ----------------------------
(***************************************************************************)
(* A model of fixed_point_arithmetic::fixed_point_number<value_t, digits>  *)
(* (include/fixed_point_number.hpp): one raw integer _value of the storage *)
(* type value_t, scaled by decimal_scale<value_t, digits>.                 *)
(*                                                                         *)
(* C++ integer arithmetic is modelled with its widths.  Three storage      *)
(* types are modelled:                                                     *)
(*   "schar"  signed char, 8 bits; every operand is promoted to int, which *)
(*            is wider, so the arithmetic itself is exact and only the     *)
(*            conversion back to signed char reduces modulo 2^8;           *)
(*   "short"  short, 16 bits, promoted to a 32 bit int in the same way;    *)
(*   "int"    int, computed in int itself: signed overflow is undefined    *)
(*            behaviour.  int is taken at 16 bits, the least width the     *)
(*            language allows, so that the products of the wider type      *)
(*            (long long) stay within TLC's integers; these are the code   *)
(*            paths std::int32_t and std::int64_t take.                    *)
(*                                                                         *)
(* Undefined signed overflow has the two outcomes g++ produces for this    *)
(* header: build "wrap" (no optimisation: the result wraps modulo 2^w, the *)
(* test that follows reads the wrapped value, and MIN / -1 traps) and      *)
(* build "fold" (-O2: the compiler assumes no overflow and removes the     *)
(* test that follows, so the wrapped value is used).  A call whose result  *)
(* depends on it takes either outcome.                                     *)
(*                                                                         *)
(* The specifications share the variables:                                 *)
(*   Spec          the arithmetic operators on two objects a and b;        *)
(*   SpecRoundDiv  default_round_policy::round_div on a value and divisor; *)
(*   SpecConv      construction from, and the explicit cast to, an         *)
(*                 integral type U;                                        *)
(*   SpecGrid      one arithmetic operator on a value of a grid over the   *)
(*                 whole storage range and a unit operand (0, 1 or -1);    *)
(*   SpecNeg       unary minus, and unary minus of its result;             *)
(*   SpecCmp       the six comparison operators on two objects;            *)
(*   SpecTrip      a construction from an integer followed by casts back   *)
(*                 and copies;                                             *)
(*   SpecParts     get_parts and to_string on one object;                  *)
(*   SpecOrder     a product and a quotient of two objects, compared with  *)
(*                 the left operand;                                       *)
(*   SpecScale     the compile-time constants decimal_scale and            *)
(*                 max_decimal_digits_num;                                 *)
(*   SpecRound     default_round_policy::round on a floating value;        *)
(*   SpecEngine    mult_div on a triple of values, one statement group at  *)
(*                 a time, with its locals in view;                        *)
(*   SpecRun       a sequence of operators applied to a default            *)
(*                 constructed object, each with a fresh operand;          *)
(*   SpecInverse   a += b or a -= b followed by the opposite operator with *)
(*                 the same b, and a - a;                                  *)
(*   SpecIncDec    repeated ++ or -- followed by the opposite operator.    *)
(***************************************************************************)
EXTENDS Integers, Sequences

VARIABLES
    T,      \* value_t of the configuration
    digits, \* fraction_digits_num of the configuration
    U,      \* source_t or destination_t of the last conversion (value_t when
            \* no conversion was called)
    build,  \* the treatment of undefined signed overflow the last call's
            \* outcome rests on: "wrap" or "fold", "any" when it rests on none
    a,      \* _value of the left operand object
    b,      \* _value of the right operand object; after a construction, the
            \* source value it was called with
    op,     \* the last operation called
    pa,     \* a._value immediately before that call; the value of round_div
    pb,     \* b._value immediately before that call; the divisor of round_div
    res,    \* how the call ended: "ok", an exception, or "Trap"
    ret,    \* the raw value of the object the call returned, or the integer
            \* round_div or a cast returned (when res = "ok")
    n       \* number of operations called since construction

vars == <<T, digits, U, build, a, b, op, pa, pb, res, ret, n>>

-----------------------------------------------------------------------------
(* Bounds of the model *)

\* sample raw values lie within Near of a landmark of the storage range
Near == 1
\* configurations use at most MaxDigits fraction digits
MaxDigits == 2
\* at most MaxOps operations are called on the objects after construction
MaxOps == 1
\* the operands of the ordering test lie within Spread of the test's values
Spread == 3
\* a sequence of operators on one object has at most MaxSteps operators
MaxSteps == 2

-----------------------------------------------------------------------------
(* C++ integer types *)

StorageTypes == {"schar", "short", "int"}

\* the integral types a value is constructed from and cast to: the storage
\* types, unsigned char, and unsigned int (as wide as int)
IntegralTypes == StorageTypes \cup {"uchar", "unsigned"}

\* width of the type in bits
Bits(t) == IF t \in {"schar", "uchar"} THEN 8 ELSE 16

\* integral promotion: operands of types narrower than int are computed in int
Promoted(t) == t \in {"schar", "uchar", "short"}

\* std::is_unsigned
IsUnsigned(t) == t \in {"uchar", "unsigned"}

\* std::numeric_limits<t>::max() and min() of the signed type of Bits(t) bits:
\* 2^(Bits(t)-1) - 1 and -2^(Bits(t)-1)
TMax(t) == IF Bits(t) = 8 THEN 127 ELSE 32767
TMin(t) == -TMax(t) - 1
InRange(t, x) == TMin(t) <= x /\ x <= TMax(t)

\* conversion of x to the signed type t: reduction modulo 2^Bits(t)
Wrap(t, x) == ((x - TMin(t)) % (2 * (TMax(t) + 1))) + TMin(t)

\* std::numeric_limits<t>::min() and max() of any integral type
LimitMin(t) == IF IsUnsigned(t) THEN 0 ELSE TMin(t)
LimitMax(t) == IF IsUnsigned(t) THEN 2 * TMax(t) + 1 ELSE TMax(t)

\* conversion of x to unsigned int: reduction modulo 2^Bits("unsigned")
ToUnsigned(x) == x % (LimitMax("unsigned") + 1)

\* the result of an arithmetic operation on operands of storage type t whose
\* exact value is x: exact in int for a promoted type, wrapped (after undefined
\* overflow) for int
Arith(t, x) == IF Promoted(t) THEN x ELSE Wrap(t, x)

\* that operation overflowed its type: undefined behaviour
Overflows(t, x) == ~Promoted(t) /\ ~InRange(t, x)

Abs(x) == IF x < 0 THEN -x ELSE x

\* C++ integer division truncates towards zero; % takes the sign of the dividend
CDiv(x, y) ==
    IF x >= 0 /\ y > 0 THEN x \div y
    ELSE IF (x < 0) = (y < 0) THEN Abs(x) \div Abs(y) ELSE -(Abs(x) \div Abs(y))
CMod(x, y) == IF x >= 0 /\ y > 0 THEN x % y ELSE x - y * CDiv(x, y)

\* std::abs on an operand of storage type t
std_abs(t, x) == Arith(t, Abs(x))

RECURSIVE calc_max_decimal_digits_num(_)
calc_max_decimal_digits_num(value) ==
    IF CDiv(value, 10) = 0 THEN 1 ELSE calc_max_decimal_digits_num(CDiv(value, 10)) + 1

max_decimal_digits_num(t) == calc_max_decimal_digits_num(TMax(t))

RECURSIVE decimal_scale(_, _)
decimal_scale(t, k) == IF k = 0 THEN 1 ELSE decimal_scale(t, k - 1) * 10

scale_value == decimal_scale(T, digits)

-----------------------------------------------------------------------------
(* Outcomes of a call *)

Ok(v) == [kind |-> "ok", val |-> v]
Throw(e) == [kind |-> e, val |-> 0]

\* details::is_add_overflow
is_add_overflow(x, y, result) ==
    IF x > 0 /\ y > 0 THEN result < 0
    ELSE IF x < 0 /\ y < 0 THEN result > 0
    ELSE FALSE

\* details::is_subtract_overflow
is_subtract_overflow(x, y, result) == is_add_overflow(y, result, x)

\* operator += on raw values x, y (also ++ with y = scale_value)
op_add(t, bld, x, y) ==
    LET tmp_value == Wrap(t, x + y)
    IN  IF Overflows(t, x + y) /\ bld = "fold" THEN Ok(tmp_value)
        ELSE IF is_add_overflow(x, y, tmp_value) THEN Throw("OutOfRange")
        ELSE Ok(tmp_value)

\* operator -= on raw values x, y
op_sub(t, bld, x, y) ==
    LET tmp_value == Wrap(t, x - y)
    IN  IF is_subtract_overflow(x, y, tmp_value) THEN Throw("OutOfRange")
        ELSE Ok(tmp_value)

\* operator -- : the subtrahend is the constant scale_value
op_dec(t, bld, x, s) ==
    LET tmp_value == Wrap(t, x - s)
    IN  IF Overflows(t, x - s) /\ bld = "fold" THEN Ok(tmp_value)
        ELSE IF is_subtract_overflow(x, s, tmp_value) THEN Throw("OutOfRange")
        ELSE Ok(tmp_value)

\* a unary minus that takes the one's complement and tests nothing
op_neg_complement(t, bld, x) == Ok(-x - 1)

\* unary operator -
op_neg(t, bld, x) ==
    LET result == Wrap(t, -x)
    IN  IF Overflows(t, -x) /\ bld = "fold" THEN Ok(result)
        ELSE IF (result > 0 /\ x > 0) \/ (result < 0 /\ x < 0) THEN Throw("OutOfRange")
        ELSE Ok(result)

\* a native division that overflows (MIN / -1): the division instruction traps
DivTraps(t, x, y) == ~Promoted(t) /\ x = TMin(t) /\ y = -1

\* details::gcd, with the % of C++
RECURSIVE gcd(_, _)
gcd(x, y) == IF x = 0 THEN y ELSE gcd(CMod(y, x), x)

\* a round_div that returns 0 for a zero value before it tests the divisor
round_div_value_first(v, value, divisor) ==
    IF value = 0 THEN Ok(0)
    ELSE IF divisor = 0 THEN Throw("InvalidArgument")
    ELSE Ok(CDiv(value, divisor))

\* default_round_policy::round_div<v>; v is a storage type, or "wide" for the
\* common type of the widened product and the divisor, which holds every
\* intermediate value exactly
round_div(v, value, divisor) ==
    IF divisor = 0 THEN Throw("InvalidArgument")
    ELSE IF value = 0 THEN Ok(0)
    ELSE
        LET exact == v = "wide" \/ Promoted(v)
            abs_divisor == IF exact THEN Abs(divisor) ELSE Wrap(v, Abs(divisor))
            abs_value == IF exact THEN Abs(value) ELSE Wrap(v, Abs(value))
            quotient == CDiv(value, abs_divisor)
            remainder == CMod(abs_value, abs_divisor)
            doubled == IF exact THEN remainder * 2 ELSE Wrap(v, remainder * 2)
            nudged == IF value < 0 THEN quotient - 1 ELSE quotient + 1
            divided_value ==
                IF doubled >= abs_divisor
                THEN (IF exact THEN nudged ELSE Wrap(v, nudged))
                ELSE quotient
            signed == IF divisor < 0 THEN -divided_value ELSE divided_value
        IN  Ok(IF v = "wide" THEN signed ELSE Wrap(v, signed))

\* range_checked_cast<t> applied to the outcome of round_div
range_checked_cast(t, out) ==
    IF out.kind # "ok" THEN out
    ELSE IF out.val < TMin(t) \/ out.val > TMax(t) THEN Throw("OutOfRange")
    ELSE Ok(out.val)

\* an overflow handler that has no wider type to turn to and throws
mult_overflow_handler_none(t, value1, value2) == Throw("OutOfRange")

\* mult_overflow_handler_impl<t, next_storage_type<t>>::handle: the product in
\* the next storage type, which is at least twice as wide as t
mult_overflow_handler(t, value1, value2) ==
    LET result == value1 * value2
    IN  IF CDiv(result, value1) # value2 THEN Throw("OutOfRange") ELSE Ok(result)

\* a reduction step that divides the value and leaves the divisor as it was
Reduce_value_only(t, value, divisor) ==
    LET common_divisor == gcd(std_abs(t, value), std_abs(t, divisor))
    IN  IF common_divisor = 1 THEN [trap |-> FALSE, v |-> value, d |-> divisor]
        ELSE [trap |-> FALSE, v |-> Wrap(t, CDiv(value, common_divisor)), d |-> divisor]

\* one reduction step of mult_div: value and divisor divided by their gcd
Reduce(t, value, divisor) ==
    LET common_divisor == gcd(std_abs(t, value), std_abs(t, divisor))
    IN  IF common_divisor = 1 THEN [trap |-> FALSE, v |-> value, d |-> divisor]
        ELSE IF DivTraps(t, value, common_divisor) \/ DivTraps(t, divisor, common_divisor)
        THEN [trap |-> TRUE, v |-> value, d |-> divisor]
        ELSE [trap |-> FALSE,
              v |-> Wrap(t, CDiv(value, common_divisor)),
              d |-> Wrap(t, CDiv(divisor, common_divisor))]

\* fixed_point_number::mult_div<t>
mult_div(t, bld, value1, value2, divisor) ==
    IF divisor = 0 THEN Throw("InvalidArgument")
    ELSE IF value1 = 0 THEN Ok(0)
    ELSE
        LET r1 == Reduce(t, value1, divisor)
        IN  IF r1.trap THEN Throw("Trap")
            ELSE IF value2 = 0 THEN Ok(0)
            ELSE
                LET r2 == Reduce(t, value2, r1.d)
                    mult_result == Wrap(t, r1.v * r2.v)
                IN  IF r2.trap THEN Throw("Trap")
                    ELSE IF Overflows(t, r1.v * r2.v) /\ bld = "fold"
                    THEN range_checked_cast(t, round_div(t, mult_result, r2.d))
                    ELSE IF DivTraps(t, mult_result, r1.v) THEN Throw("Trap")
                    ELSE IF CDiv(mult_result, r1.v) # r2.v
                    THEN LET ext == mult_overflow_handler(t, r1.v, r2.v)
                         IN  IF ext.kind # "ok" THEN ext
                             ELSE range_checked_cast(t, round_div("wide", ext.val, r2.d))
                    ELSE range_checked_cast(t, round_div(t, mult_result, r2.d))

\* operator *= and operator /= on raw values x, y with scale s
op_mul(t, bld, x, y, s) == mult_div(t, bld, x, y, s)

\* operator /= taking the shortcut for a zero dividend before mult_div
\* tests the divisor
op_div_zero_first(t, bld, x, y, s) ==
    IF x = 0 THEN Ok(0) ELSE mult_div(t, bld, x, s, y)

op_div(t, bld, x, y, s) == mult_div(t, bld, x, s, y)

\* convert_from_source storing the source value without scaling it
convert_from_source_unscaled(t, u, bld, src, s) ==
    IF src < TMin(t) \/ src > TMax(t) THEN Throw("ConversionError")
    ELSE Ok(src)

\* convert_from_source<u> for an integral u: the product src * scale_value is
\* computed in the common type of u and t, which is unsigned int for
\* u = unsigned int, an int wider than both for two promoted types, and int
\* otherwise; the comparisons with the limits of t are made in that type
convert_from_source(t, u, bld, src, s) ==
    IF u = "unsigned"
    THEN LET value == ToUnsigned(src * s)
         IN  IF \/ value \div s # src
                \/ value < ToUnsigned(TMin(t))
                \/ value > ToUnsigned(TMax(t))
             THEN Throw("ConversionError")
             ELSE Ok(Wrap(t, value))
    ELSE LET exact == Promoted(u) /\ Promoted(t)
             value == IF exact THEN src * s ELSE Wrap("int", src * s)
         IN  IF \/ ~(~exact /\ Overflows("int", src * s) /\ bld = "fold")
                   /\ CDiv(value, s) # src
                \/ value < TMin(t)
                \/ value > TMax(t)
             THEN Throw("ConversionError")
             ELSE Ok(Wrap(t, value))

\* convert_to_destination<d> for an integral d: round_div<t> of the raw value
\* by the scale, compared with the limits of d in the common type of t and
\* d, which is unsigned int for d = unsigned int and a signed type holding
\* both otherwise.  std::abs of the most negative value of int is undefined:
\* build "fold" continues with its exact absolute value
convert_to_destination(t, d, bld, value, s) ==
    LET rounded ==
            IF Overflows(t, Abs(value)) /\ bld = "fold"
            THEN round_div("wide", value, s)
            ELSE round_div(t, value, s)
        scaled_value == rounded.val
    IN  IF d = "unsigned"
        THEN IF \/ ToUnsigned(scaled_value) < LimitMin(d)
                \/ ToUnsigned(scaled_value) > LimitMax(d)
             THEN Throw("ConversionError")
             ELSE Ok(ToUnsigned(scaled_value))
        ELSE IF scaled_value < LimitMin(d) \/ scaled_value > LimitMax(d)
             THEN Throw("ConversionError")
             ELSE Ok(scaled_value)

-----------------------------------------------------------------------------
(* The state machine *)

Digits(t) ==
    0 .. (IF MaxDigits < max_decimal_digits_num(t) - 1
          THEN MaxDigits ELSE max_decimal_digits_num(t) - 1)

\* the largest r in lo .. hi with r * r <= x, by bisection
RECURSIVE Isqrt(_, _, _)
Isqrt(lo, hi, x) ==
    IF lo = hi THEN lo
    ELSE LET mid == (lo + hi + 1) \div 2
         IN  IF mid * mid <= x THEN Isqrt(mid, hi, x) ELSE Isqrt(lo, mid - 1, x)

\* the largest raw value whose square, divided by the scale s, is in range
Root(t, s) == Isqrt(0, TMax(t), TMax(t) * s)

Landmarks(t, s) == {0, s, -s, TMax(t), TMin(t), Root(t, s), -Root(t, s)}

Samples(t, s) ==
    {x \in UNION {(l - Near) .. (l + Near) : l \in Landmarks(t, s)} : InRange(t, x)}

Init ==
    /\ T \in StorageTypes
    /\ digits \in Digits(T)
    /\ U = T
    /\ build = "any"
    /\ a \in Samples(T, scale_value)
    /\ b \in Samples(T, scale_value)
    /\ op = "init"
    /\ pa = a
    /\ pb = b
    /\ res = "ok"
    /\ ret = 0
    /\ n = 0

\* the outcomes of a call, given its outcome under each build; the arithmetic
\* of a promoted type has no undefined overflow, and one outcome
Outcomes(w, f) ==
    IF Promoted(T) \/ w = f THEN {[out |-> w, bld |-> "any"]}
    ELSE {[out |-> w, bld |-> "wrap"], [out |-> f, bld |-> "fold"]}

\* the same for a conversion, whose arithmetic is that of the common type
ConvOutcomes(w, f) ==
    IF w = f THEN {[out |-> w, bld |-> "any"]}
    ELSE {[out |-> w, bld |-> "wrap"], [out |-> f, bld |-> "fold"]}

\* the bookkeeping of a call named name that ends with outcome o
Called(name, o) ==
    /\ n < MaxOps
    /\ n' = n + 1
    /\ op' = name
    /\ pa' = a
    /\ pb' = b
    /\ res' = o.out.kind
    /\ build' = o.bld
    /\ UNCHANGED <<T, digits>>

\* a compound assignment that stores the computed value before the range
\* test, instead of going through tmp_value
CompoundCommitFirst(name, w, f) ==
    \E o \in Outcomes(w, f) :
        /\ Called(name, o)
        /\ a' = IF name \in {"+=", "-="}
                THEN (IF name = "+=" THEN Wrap(T, a + b) ELSE Wrap(T, a - b))
                ELSE IF o.out.kind = "ok" THEN o.out.val ELSE a
        /\ ret' = IF o.out.kind = "ok" THEN o.out.val ELSE 0
        /\ UNCHANGED <<b, U>>

\* a compound assignment or prefix operator of the left operand: the result
\* is committed on success only, and the updated object is returned
Compound(name, w, f) ==
    \E o \in Outcomes(w, f) :
        /\ Called(name, o)
        /\ a' = IF o.out.kind = "ok" THEN o.out.val ELSE a
        /\ ret' = IF o.out.kind = "ok" THEN o.out.val ELSE 0
        /\ UNCHANGED <<b, U>>

AddAssign == Compound("+=", op_add(T, "wrap", a, b), op_add(T, "fold", a, b))

SubAssign == Compound("-=", op_sub(T, "wrap", a, b), op_sub(T, "fold", a, b))

MulAssign ==
    Compound("*=", op_mul(T, "wrap", a, b, scale_value), op_mul(T, "fold", a, b, scale_value))

DivAssign ==
    Compound("/=", op_div(T, "wrap", a, b, scale_value), op_div(T, "fold", a, b, scale_value))

PreInc == Compound("++x", op_add(T, "wrap", a, scale_value), op_add(T, "fold", a, scale_value))

PreDec == Compound("--x", op_dec(T, "wrap", a, scale_value), op_dec(T, "fold", a, scale_value))

\* postfix ++ and --: a copy made before the update is returned
Postfix(name, w, f) ==
    \E o \in Outcomes(w, f) :
        /\ Called(name, o)
        /\ a' = IF o.out.kind = "ok" THEN o.out.val ELSE a
        /\ ret' = IF o.out.kind = "ok" THEN a ELSE 0
        /\ UNCHANGED <<b, U>>

PostInc == Postfix("x++", op_add(T, "wrap", a, scale_value), op_add(T, "fold", a, scale_value))

PostDec == Postfix("x--", op_dec(T, "wrap", a, scale_value), op_dec(T, "fold", a, scale_value))

\* unary minus: a new object is returned, the operand is const
Negate ==
    \E o \in Outcomes(op_neg(T, "wrap", a), op_neg(T, "fold", a)) :
        /\ Called("-x", o)
        /\ ret' = IF o.out.kind = "ok" THEN o.out.val ELSE 0
        /\ UNCHANGED <<a, b, U>>

Next ==
    \/ AddAssign
    \/ SubAssign
    \/ MulAssign
    \/ DivAssign
    \/ PreInc
    \/ PreDec
    \/ PostInc
    \/ PostDec
    \/ Negate

Spec == Init /\ [][Next]_vars

-----------------------------------------------------------------------------
(* One operator on a grid of values and a unit operand *)

\* raw values over the whole storage range: every value of an 8 bit type,
\* every 258th value of a 16 bit type, with the samples
GridValues(t, s) ==
    {TMin(t) + k * (TMax(t) \div 127) : k \in 0 .. 254} \cup Samples(t, s)

\* the raw values of 0, 1 and -1
UnitValues(s) == {0, s, -s}

\* two objects, one of them 0, 1 or -1
InitGrid ==
    /\ T \in StorageTypes
    /\ digits \in Digits(T)
    /\ U = T
    /\ build = "any"
    /\ \/ a \in GridValues(T, scale_value) /\ b \in UnitValues(scale_value)
       \/ a \in UnitValues(scale_value) /\ b \in GridValues(T, scale_value)
    /\ op = "init"
    /\ pa = a
    /\ pb = b
    /\ res = "ok"
    /\ ret = 0
    /\ n = 0

\* one operator is called on the two objects
NextGrid ==
    \/ n = 0 /\ AddAssign
    \/ n = 0 /\ SubAssign
    \/ n = 0 /\ MulAssign
    \/ n = 0 /\ DivAssign
    \/ n = 0 /\ PreInc
    \/ n = 0 /\ PreDec
    \/ n = 0 /\ PostInc
    \/ n = 0 /\ PostDec
    \/ n = 0 /\ Negate

SpecGrid == InitGrid /\ [][NextGrid]_vars

-----------------------------------------------------------------------------
(* Unary minus applied twice *)

\* one object a of any value of the grid
InitNeg ==
    /\ T \in StorageTypes
    /\ digits \in Digits(T)
    /\ U = T
    /\ build = "any"
    /\ a \in GridValues(T, scale_value)
    /\ b = 0
    /\ op = "init"
    /\ pa = a
    /\ pb = b
    /\ res = "ok"
    /\ ret = 0
    /\ n = 0

\* -(-a): unary minus of the object the first unary minus returned, whose
\* raw value is ret; reached when the first did not throw
NegateAgain ==
    /\ op = "-x"
    /\ res = "ok"
    /\ \E o \in Outcomes(op_neg(T, "wrap", ret), op_neg(T, "fold", ret)) :
        /\ n' = n + 1
        /\ op' = "-(-x)"
        /\ pa' = a
        /\ pb' = ret
        /\ res' = o.out.kind
        /\ build' = o.bld
        /\ ret' = IF o.out.kind = "ok" THEN o.out.val ELSE 0
        /\ UNCHANGED <<T, digits, U, a, b>>

NextNeg == Negate \/ NegateAgain

SpecNeg == InitNeg /\ [][NextNeg]_vars

-----------------------------------------------------------------------------
(* default_round_policy::round_div<T> called on its own *)

\* values and divisors: near zero, ten, the limits of T and their halves
RoundDivValues(t) ==
    {x \in UNION {(l - Near) .. (l + Near) :
                    l \in {0, 10, -10, TMax(t), TMin(t),
                           TMax(t) \div 2, -(TMax(t) \div 2)}} : InRange(t, x)}

InitRoundDiv ==
    /\ T \in StorageTypes
    /\ digits = 0
    /\ U = T
    /\ build = "any"
    /\ a \in RoundDivValues(T)
    /\ b \in RoundDivValues(T)
    /\ op = "init"
    /\ pa = a
    /\ pb = b
    /\ res = "ok"
    /\ ret = 0
    /\ n = 0

\* round_div<T>(a, b)
RoundDiv ==
    LET o == round_div(T, a, b)
    IN  /\ Called("round_div", [out |-> o, bld |-> "any"])
        /\ ret' = o.val
        /\ UNCHANGED <<a, b, U>>

NextRoundDiv == RoundDiv

SpecRoundDiv == InitRoundDiv /\ [][NextRoundDiv]_vars

-----------------------------------------------------------------------------
(* Conversions from and to integral types *)

\* source values of type u: near zero, the limits of u, and the largest and
\* smallest values whose product with the scale s is in the range of t
SourceValues(t, u, s) ==
    {x \in UNION {(l - Near) .. (l + Near) :
                    l \in {0, LimitMin(u), LimitMax(u),
                           TMax(t) \div s, -(TMax(t) \div s)}} :
        LimitMin(u) <= x /\ x <= LimitMax(u)}

\* raw values to cast: the samples and the values near half of the scale s,
\* where the rounding turns
CastValues(t, s) ==
    Samples(t, s) \cup
    {x \in UNION {(l - Near) .. (l + Near) : l \in {s \div 2, -(s \div 2)}} :
        InRange(t, x)}

\* one object a of any of these raw values; there is no right operand
InitConv ==
    /\ T \in StorageTypes
    /\ digits \in Digits(T)
    /\ U = T
    /\ build = "any"
    /\ a \in CastValues(T, scale_value)
    /\ b = 0
    /\ op = "init"
    /\ pa = a
    /\ pb = b
    /\ res = "ok"
    /\ ret = 0
    /\ n = 0

\* fixed_point_number(const source_t & src) for an integral source_t: the
\* object a is constructed anew from src; a failed construction leaves no
\* new object
Construct ==
    \E u \in IntegralTypes :
        \E src \in SourceValues(T, u, scale_value) :
            \E o \in ConvOutcomes(convert_from_source(T, u, "wrap", src, scale_value),
                                  convert_from_source(T, u, "fold", src, scale_value)) :
                /\ Called("ctor", o)
                /\ U' = u
                /\ a' = IF o.out.kind = "ok" THEN o.out.val ELSE a
                /\ b' = src
                /\ ret' = IF o.out.kind = "ok" THEN o.out.val ELSE 0

\* explicit operator destination_type () const for an integral destination
Cast ==
    \E d \in IntegralTypes :
        \E o \in ConvOutcomes(convert_to_destination(T, d, "wrap", a, scale_value),
                              convert_to_destination(T, d, "fold", a, scale_value)) :
            /\ Called("cast", o)
            /\ U' = d
            /\ ret' = IF o.out.kind = "ok" THEN o.out.val ELSE 0
            /\ UNCHANGED <<a, b>>

NextConv == Construct \/ Cast

SpecConv == InitConv /\ [][NextConv]_vars

-----------------------------------------------------------------------------
(* Round trip: construct from an integer, then cast back or copy *)

\* no object yet; _value() of a default constructed one is 0
InitTrip ==
    /\ T \in StorageTypes
    /\ digits \in Digits(T)
    /\ U = T
    /\ build = "any"
    /\ a = 0
    /\ b = 0
    /\ op = "init"
    /\ pa = 0
    /\ pb = 0
    /\ res = "ok"
    /\ ret = 0
    /\ n = 0

\* operator == on raw values
op_eq(x, y) == x = y

\* operator !=, <, > and >= on raw values
op_ne(x, y) == x # y
op_lt(x, y) == x < y
op_gt(x, y) == x > y
op_ge(x, y) == x >= y

\* an operator <= that compares as operator < does
op_le_strict(x, y) == x < y

\* operator <= on raw values
op_le(x, y) == x <= y

\* the six operators are called on a and b, none of which throws; ret is the
\* set of those that returned true
Compare ==
    /\ Called("compare", [out |-> Ok(0), bld |-> "any"])
    /\ ret' = {c \in {"==", "!=", "<", ">", "<=", ">="} :
                  CASE c = "==" -> op_eq(a, b)
                    [] c = "!=" -> op_ne(a, b)
                    [] c = "<"  -> op_lt(a, b)
                    [] c = ">"  -> op_gt(a, b)
                    [] c = "<=" -> op_le(a, b)
                    [] c = ">=" -> op_ge(a, b)}
    /\ UNCHANGED <<a, b, U>>

NextCmp == Compare

SpecCmp == Init /\ [][NextCmp]_vars

\* the statement after a construction is reached when the constructor did
\* not throw
Constructed == op = "ctor" /\ res = "ok"

\* static_cast<destination_type>(implicit_constructed)
CastBack ==
    /\ Constructed
    /\ \E d \in IntegralTypes :
        \E o \in ConvOutcomes(convert_to_destination(T, d, "wrap", a, scale_value),
                              convert_to_destination(T, d, "fold", a, scale_value)) :
            /\ n' = n + 1
            /\ op' = "cast back"
            /\ pa' = a
            /\ pb' = b
            /\ res' = o.out.kind
            /\ build' = o.bld
            /\ U' = d
            /\ ret' = IF o.out.kind = "ok" THEN o.out.val ELSE 0
            /\ UNCHANGED <<T, digits, a, b>>

\* const auto copy_constructed = implicit_constructed: the copy constructor
\* takes _value of the source; ret is the copy's raw value
Copy ==
    /\ Constructed
    /\ n' = n + 1
    /\ op' = "copy"
    /\ pa' = a
    /\ pb' = b
    /\ res' = "ok"
    /\ ret' = a
    /\ UNCHANGED <<T, digits, U, build, a, b>>

NextTrip == Construct \/ CastBack \/ Copy

SpecTrip == InitTrip /\ [][NextTrip]_vars

-----------------------------------------------------------------------------
(* get_parts and to_string *)

DigitChars == <<"0", "1", "2", "3", "4", "5", "6", "7", "8", "9">>

\* the decimal digits of x >= 0, most significant first, as characters
RECURSIVE DecimalDigits(_)
DecimalDigits(x) ==
    IF x < 10 THEN <<DigitChars[x + 1]>>
    ELSE Append(DecimalDigits(x \div 10), DigitChars[(x % 10) + 1])

\* std::to_string of an integer: a minus sign of its own for a negative one
std_to_string(x) ==
    IF x < 0 THEN <<"-">> \o DecimalDigits(-x) ELSE DecimalDigits(x)

\* std::string(count, '0')
RECURSIVE Zeros(_)
Zeros(count) == IF count <= 0 THEN <<>> ELSE Append(Zeros(count - 1), "0")

\* get_parts() of an object of storage type t with raw value value and scale
\* s.  -int_part is computed in int for a promoted type and converted back
\* to value_type by the static_cast, which wraps; for int it overflows when
\* int_part is the most-negative value, and the call itself returns the
\* wrapped value in both builds.
get_parts(t, value, s) ==
    LET int_part        == CDiv(value, s)
        int_part_scaled == int_part * s
        fractional_part == IF value > int_part_scaled
                           THEN value - int_part_scaled
                           ELSE int_part_scaled - value
        negative        == value < 0
    IN  [negative   |-> negative,
         integer    |-> Wrap(t, IF negative THEN -int_part ELSE int_part),
         fractional |-> Wrap(t, fractional_part)]

\* to_string(value) of an object with d fraction digits.  With get_parts
\* inlined, the undefined overflow of -int_part in int lets build "fold"
\* render the integer part as 0.
to_string(t, bld, value, s, d) ==
    LET parts         == get_parts(t, value, s)
        sign          == IF parts.negative THEN <<"-">> ELSE <<>>
        integer       == IF bld = "fold" /\ value < 0
                            /\ Overflows(t, -CDiv(value, s))
                         THEN <<"0">>
                         ELSE std_to_string(parts.integer)
        fractional    == std_to_string(parts.fractional)
        fract_padding == IF d > Len(fractional)
                         THEN Zeros(d - Len(fractional))
                         ELSE <<>>
    IN  sign \o integer \o <<".">> \o fract_padding \o fractional

InitParts ==
    /\ T \in StorageTypes
    /\ digits \in Digits(T)
    /\ U = T
    /\ build = "any"
    /\ a \in GridValues(T, scale_value)
    /\ b = 0
    /\ op = "init"
    /\ pa = a
    /\ pb = b
    /\ res = "ok"
    /\ ret = 0
    /\ n = 0

\* a.get_parts()
GetParts ==
    /\ Called("get_parts", [out |-> Ok(0), bld |-> "any"])
    /\ ret' = get_parts(T, a, scale_value)
    /\ UNCHANGED <<a, b, U>>

\* to_string(a)
ToString ==
    \E o \in Outcomes(Ok(to_string(T, "wrap", a, scale_value, digits)),
                      Ok(to_string(T, "fold", a, scale_value, digits))) :
        /\ Called("to_string", o)
        /\ ret' = o.out.val
        /\ UNCHANGED <<a, b, U>>

NextParts == GetParts \/ ToString

SpecParts == InitParts /\ [][NextParts]_vars

-----------------------------------------------------------------------------
(* Ordering of a product and a quotient (TEST Comparison operators) *)

\* fixed_point_number<TestType, 2>
OrderDigits == 2
\* the raw values of 0.57 and of 1.11 with two fraction digits
Raw057 == 57
Raw111 == 111

\* a and the factor, each the test's value or a value near it
InitOrder ==
    /\ T \in StorageTypes
    /\ digits = OrderDigits
    /\ U = T
    /\ build = "any"
    /\ a \in (Raw057 - Spread) .. (Raw057 + Spread)
    /\ b \in (Raw111 - Spread) .. (Raw111 + Spread)
    /\ op = "init"
    /\ pa = a
    /\ pb = b
    /\ res = "ok"
    /\ ret = [c |-> 0, d |-> 0, holds |-> {}]
    /\ n = 0

\* c = a * b: operator * takes a copy of a, applies *= to it and returns it
Times ==
    /\ op = "init"
    /\ \E o \in Outcomes(op_mul(T, "wrap", a, b, scale_value),
                         op_mul(T, "fold", a, b, scale_value)) :
        /\ Called("a*b", o)
        /\ ret' = [ret EXCEPT !.c = IF o.out.kind = "ok" THEN o.out.val ELSE 0]
        /\ UNCHANGED <<a, b, U>>

\* d = a / b, reached when a * b did not throw
Over ==
    /\ op = "a*b"
    /\ res = "ok"
    /\ \E o \in Outcomes(op_div(T, "wrap", a, b, scale_value),
                         op_div(T, "fold", a, b, scale_value)) :
        /\ n' = n + 1
        /\ op' = "a/b"
        /\ pa' = a
        /\ pb' = b
        /\ res' = o.out.kind
        /\ build' = o.bld
        /\ ret' = [ret EXCEPT !.d = IF o.out.kind = "ok" THEN o.out.val ELSE 0]
        /\ UNCHANGED <<T, digits, U, a, b>>

\* the comparisons d < a, a < c and d < c, reached when a / b did not throw
CompareOrder ==
    /\ op = "a/b"
    /\ res = "ok"
    /\ n' = n + 1
    /\ op' = "order"
    /\ pa' = a
    /\ pb' = b
    /\ res' = "ok"
    /\ ret' = [ret EXCEPT !.holds =
                  {r \in {"d<a", "a<c", "d<c"} :
                      CASE r = "d<a" -> op_lt(ret.d, a)
                        [] r = "a<c" -> op_lt(a, ret.c)
                        [] r = "d<c" -> op_lt(ret.d, ret.c)}]
    /\ UNCHANGED <<T, digits, U, build, a, b>>

NextOrder == Times \/ Over \/ CompareOrder

SpecOrder == InitOrder /\ [][NextOrder]_vars

-----------------------------------------------------------------------------
(* The compile-time constants decimal_scale and max_decimal_digits_num *)

\* decimal_scale<t, k> is well formed: each decimal_scale<t, j - 1>::value *
\* 10 up to j = k is a constant expression without overflow that converts to
\* t without narrowing; the program is ill-formed otherwise
decimal_scale_well_formed(t, k) == \A j \in 0 .. k : InRange(t, decimal_scale(t, j))

\* a count of the digits that stops one division by 10 early
calc_digits_one_short(value) ==
    IF CDiv(value, 10) = 0 THEN 0 ELSE calc_max_decimal_digits_num(CDiv(value, 10))

\* max_decimal_digits_num<t, value>::value
max_decimal_digits_num_of(value) == calc_max_decimal_digits_num(value)

\* the values max_decimal_digits_num<T, value> is instantiated with: near 0,
\* the powers of ten and the default, the maximum of T
ScaleArguments(t) ==
    {x \in UNION {(l - Near) .. (l + Near) : l \in {0, 10, 100, 1000, 10000, TMax(t)}} :
        0 <= x /\ x <= TMax(t)}

InitScale ==
    /\ T \in StorageTypes
    /\ digits = 0
    /\ U = T
    /\ build = "any"
    /\ a \in ScaleArguments(T)
    /\ b = 0
    /\ op = "init"
    /\ pa = a
    /\ pb = b
    /\ res = "ok"
    /\ ret = 0
    /\ n = 0

\* decimal_scale<T, k>::value for a digit count k up to the number of
\* decimal digits of the maximum of T
DecimalScale ==
    /\ n < MaxOps
    /\ \E k \in 0 .. max_decimal_digits_num(T) :
        /\ n' = n + 1
        /\ op' = "decimal_scale"
        /\ digits' = k
        /\ pa' = a
        /\ pb' = b
        /\ res' = IF decimal_scale_well_formed(T, k) THEN "ok" ELSE "ill-formed"
        /\ ret' = IF decimal_scale_well_formed(T, k) THEN decimal_scale(T, k) ELSE 0
        /\ UNCHANGED <<T, U, build, a, b>>

\* max_decimal_digits_num<T, a>::value
MaxDecimalDigitsNum ==
    /\ Called("max_decimal_digits_num", [out |-> Ok(0), bld |-> "any"])
    /\ ret' = max_decimal_digits_num_of(a)
    /\ UNCHANGED <<a, b, U>>

NextScale == DecimalScale \/ MaxDecimalDigitsNum

SpecScale == InitScale /\ [][NextScale]_vars

-----------------------------------------------------------------------------
(* default_round_policy::round<T> of a floating value *)

\* a floating value is the rational value / RoundDen; thousandths hold the
\* test's arguments (0.499, 1.4, 2.1)
RoundDen == 1000

\* std::trunc: the integral part, towards zero
std_trunc(value) == CDiv(value, RoundDen)

\* std::round: the nearest integral value, halfway cases away from zero
std_round(value) ==
    LET whole == CDiv(value, RoundDen)
        part  == Abs(CMod(value, RoundDen))
    IN  IF 2 * part >= RoundDen
        THEN (IF value < 0 THEN whole - 1 ELSE whole + 1)
        ELSE whole

\* static_cast<t> of an integral floating value.  Out of the range of t the
\* conversion is undefined; the processor's conversion to int returns the
\* most-negative int (the "integer indefinite" value), and a type narrower
\* than int takes the low bits of the conversion to int
float_to_integral(t, rounded) ==
    IF InRange(t, rounded) THEN rounded
    ELSE IF ~Promoted(t) THEN TMin(t)
    ELSE IF InRange("int", rounded) THEN Wrap(t, rounded)
    ELSE Wrap(t, TMin("int"))

\* default_round_policy::round<t>(value); the conversion of casted back to
\* the floating type is exact for every value float_to_integral returns
round(t, value) ==
    LET rounded          == std_round(value)
        casted           == float_to_integral(t, rounded)
        casted_to_source == casted
    IN  IF casted_to_source # rounded THEN Throw("RoundPolicyError")
        ELSE Ok(casted)

\* floating arguments, in thousandths: near 0, the halves, 2.1, the limits of
\* T, the halves beyond them, and values beyond the range of int
RoundArguments(t) ==
    UNION {(l - Near) .. (l + Near) :
              l \in {0, RoundDen \div 2, -(RoundDen \div 2), RoundDen, -RoundDen,
                     3 * (RoundDen \div 2), -3 * (RoundDen \div 2), 2100, -2100,
                     TMax(t) * RoundDen, TMax(t) * RoundDen + RoundDen \div 2,
                     TMin(t) * RoundDen, TMin(t) * RoundDen - RoundDen \div 2,
                     (TMax(t) + 1) * RoundDen, (TMin(t) - 1) * RoundDen,
                     2 * (TMax(t) + 1) * RoundDen, -2 * (TMax(t) + 1) * RoundDen,
                     (TMax("int") + 1) * RoundDen, 2 * (TMax("int") + 1) * RoundDen}}

InitRound ==
    /\ T \in StorageTypes
    /\ digits = 0
    /\ U = T
    /\ build = "any"
    /\ a \in RoundArguments(T)
    /\ b = 0
    /\ op = "init"
    /\ pa = a
    /\ pb = b
    /\ res = "ok"
    /\ ret = 0
    /\ n = 0

\* default_round_policy::round<T>(a / RoundDen)
Round ==
    LET o == round(T, a)
    IN  /\ Called("round", [out |-> o, bld |-> "any"])
        /\ ret' = o.val
        /\ UNCHANGED <<a, b, U>>

NextRound == Round

SpecRound == InitRound /\ [][NextRound]_vars

-----------------------------------------------------------------------------
(* mult_div step by step *)

\* details::next_storage_type<t>::type.  The native tier "int" stands for
\* int, whose next type long long is wider, and for the 64 bit types long and
\* long long, whose next type long long is no wider: "none"
next_storage_types(t) ==
    IF t = "schar" THEN {"short"}
    ELSE IF t = "short" THEN {"long"}
    ELSE {"long long", "none"}

\* mult_overflow_handler<t, next>::handle.  With a wider next type the
\* product is exact.  With none, the specialisation for equal types throws,
\* and the general one (long with long long) repeats the product and the
\* test of mult_div in the same width, which fails again
mult_overflow_handler_impl(t, next, value1, value2) ==
    IF next = "none" THEN Throw("OutOfRange")
    ELSE mult_overflow_handler(t, value1, value2)

\* details::gcd(std::abs(value), std::abs(divisor)) as mult_div calls it
common_divisor_of(t, value, divisor) == gcd(std_abs(t, value), std_abs(t, divisor))

\* operands and divisors: near 0, 6, 10, the limits of t, and the root of
\* its maximum
EngineValues(t) ==
    {x \in UNION {(l - Near) .. (l + Near) :
                    l \in {0, 6, -6, 10, TMax(t), TMin(t), Root(t, 1)}} : InRange(t, x)}

\* the locals of a call mult_div(a, b, arg)
Locals(v1, v2, d) ==
    [arg |-> d, value1 |-> v1, value2 |-> v2, divisor |-> d,
     common1 |-> 0, common2 |-> 0, product |-> 0, result |-> 0]

InitEngine ==
    /\ T \in StorageTypes
    /\ U \in next_storage_types(T)
    /\ digits = 0
    /\ build = "any"
    /\ a \in EngineValues(T)
    /\ b \in EngineValues(T)
    /\ op = "init"
    /\ pa = a
    /\ pb = b
    /\ res = "ok"
    /\ \E d \in EngineValues(T) : ret = Locals(a, b, d)
    /\ n = 0

\* the bookkeeping of a step of mult_div that leads to position name
EngineStep(name, outcome, locals, bld) ==
    /\ n' = n + 1
    /\ op' = name
    /\ res' = outcome
    /\ ret' = locals
    /\ build' = bld
    /\ pa' = a
    /\ pb' = b
    /\ UNCHANGED <<T, digits, U, a, b>>

\* lines 449-464: the test of the divisor, and the reduction of value1 and
\* the divisor by their common divisor
ReduceFirst ==
    /\ op = "init"
    /\ IF ret.divisor = 0
       THEN EngineStep("mult_div", "InvalidArgument", ret, build)
       ELSE IF ret.value1 = 0
       THEN EngineStep("mult_div", "ok", [ret EXCEPT !.result = 0], build)
       ELSE LET cd == common_divisor_of(T, ret.value1, ret.divisor)
            IN  IF cd = 1
                THEN EngineStep("reduced1", "ok", [ret EXCEPT !.common1 = cd], build)
                ELSE IF DivTraps(T, ret.value1, cd) \/ DivTraps(T, ret.divisor, cd)
                THEN EngineStep("mult_div", "Trap", [ret EXCEPT !.common1 = cd], build)
                ELSE EngineStep("reduced1", "ok",
                                [ret EXCEPT !.common1 = cd,
                                            !.value1 = Wrap(T, CDiv(ret.value1, cd)),
                                            !.divisor = Wrap(T, CDiv(ret.divisor, cd))],
                                build)

\* lines 466-475: the reduction of value2 and the divisor
ReduceSecond ==
    /\ op = "reduced1"
    /\ IF ret.value2 = 0
       THEN EngineStep("mult_div", "ok", [ret EXCEPT !.result = 0], build)
       ELSE LET cd == common_divisor_of(T, ret.value2, ret.divisor)
            IN  IF cd = 1
                THEN EngineStep("reduced2", "ok", [ret EXCEPT !.common2 = cd], build)
                ELSE IF DivTraps(T, ret.value2, cd) \/ DivTraps(T, ret.divisor, cd)
                THEN EngineStep("mult_div", "Trap", [ret EXCEPT !.common2 = cd], build)
                ELSE EngineStep("reduced2", "ok",
                                [ret EXCEPT !.common2 = cd,
                                            !.value2 = Wrap(T, CDiv(ret.value2, cd)),
                                            !.divisor = Wrap(T, CDiv(ret.divisor, cd))],
                                build)

\* lines 476-477: the product in T and the test mult_result / value1 !=
\* value2.  An overflow of int is undefined: build "wrap" tests the wrapped
\* product, build "fold" takes the test to be false
Multiply ==
    /\ op = "reduced2"
    /\ LET exact       == ret.value1 * ret.value2
           mult_result == Wrap(T, exact)
           locals      == [ret EXCEPT !.product = mult_result]
           tested(bld) ==
               IF DivTraps(T, mult_result, ret.value1)
               THEN EngineStep("mult_div", "Trap", locals, bld)
               ELSE IF CDiv(mult_result, ret.value1) # ret.value2
               THEN EngineStep("overflow", "ok", locals, bld)
               ELSE EngineStep("multiplied", "ok", locals, bld)
       IN  IF Overflows(T, exact)
           THEN \/ tested("wrap")
                \/ EngineStep("multiplied", "ok", locals, "fold")
           ELSE tested(build)

\* lines 479-482: the product recomputed by the overflow handler
Widen ==
    /\ op = "overflow"
    /\ LET ext == mult_overflow_handler_impl(T, U, ret.value1, ret.value2)
       IN  IF ext.kind # "ok"
           THEN EngineStep("mult_div", ext.kind, ret, build)
           ELSE EngineStep("widened", "ok", [ret EXCEPT !.product = ext.val], build)

\* lines 484 and 488: round_div of the product by the divisor in their
\* common type, and the range-checked cast to T
RoundDivide ==
    /\ op \in {"multiplied", "widened"}
    /\ LET out == range_checked_cast(T,
                      round_div(IF op = "widened" THEN "wide" ELSE T,
                                ret.product, ret.divisor))
       IN  EngineStep("mult_div", out.kind, [ret EXCEPT !.result = out.val], build)

NextEngine == ReduceFirst \/ ReduceSecond \/ Multiply \/ Widen \/ RoundDivide

SpecEngine == InitEngine /\ [][NextEngine]_vars

-----------------------------------------------------------------------------
(* A sequence of operators on a default constructed object *)

\* fixed_point_number(): _value is 0; no operand yet
InitRun ==
    /\ T \in StorageTypes
    /\ digits \in Digits(T)
    /\ U = T
    /\ build = "any"
    /\ a = 0
    /\ b = 0
    /\ op = "init"
    /\ pa = 0
    /\ pb = 0
    /\ res = "ok"
    /\ ret = 0
    /\ n = 0

\* the object a is updated by the operator name with the operand object x,
\* whose outcomes under the two builds are w and f; the value is committed on
\* success only
Run(name, x, w, f) ==
    /\ n < MaxSteps
    /\ \E o \in Outcomes(w, f) :
        /\ n' = n + 1
        /\ op' = name
        /\ pa' = a
        /\ pb' = x
        /\ b' = x
        /\ res' = o.out.kind
        /\ build' = o.bld
        /\ a' = IF o.out.kind = "ok" THEN o.out.val ELSE a
        /\ ret' = IF o.out.kind = "ok" THEN o.out.val ELSE 0
        /\ UNCHANGED <<T, digits, U>>

RunAdd ==
    \E x \in Samples(T, scale_value) :
        Run("a += x", x, op_add(T, "wrap", a, x), op_add(T, "fold", a, x))

RunSub ==
    \E x \in Samples(T, scale_value) :
        Run("a -= x", x, op_sub(T, "wrap", a, x), op_sub(T, "fold", a, x))

RunMul ==
    \E x \in Samples(T, scale_value) :
        Run("a *= x", x, op_mul(T, "wrap", a, x, scale_value),
                         op_mul(T, "fold", a, x, scale_value))

RunDiv ==
    \E x \in Samples(T, scale_value) :
        Run("a /= x", x, op_div(T, "wrap", a, x, scale_value),
                         op_div(T, "fold", a, x, scale_value))

RunInc ==
    Run("++a", b, op_add(T, "wrap", a, scale_value), op_add(T, "fold", a, scale_value))

RunDec ==
    Run("--a", b, op_dec(T, "wrap", a, scale_value), op_dec(T, "fold", a, scale_value))

\* a = -a: the copy assignment takes the raw value unary minus returned
RunNegate ==
    Run("a = -a", b, op_neg(T, "wrap", a), op_neg(T, "fold", a))

NextRun ==
    \/ RunAdd
    \/ RunSub
    \/ RunMul
    \/ RunDiv
    \/ RunInc
    \/ RunDec
    \/ RunNegate

SpecRun == InitRun /\ [][NextRun]_vars

-----------------------------------------------------------------------------
(* An operator followed by its inverse *)

\* the outcomes of a call made after an earlier one, in the same build
LaterOutcomes(w, f) ==
    {o \in Outcomes(w, f) : build = "any" \/ o.bld = "any" \/ o.bld = build}

\* the bookkeeping of a call named name, made with the operand x after an
\* earlier call, that ends with outcome o and updates a; pa stays the value
\* held before the earlier call
Later(name, x, o) ==
    /\ n' = n + 1
    /\ op' = name
    /\ pa' = pa
    /\ pb' = x
    /\ res' = o.out.kind
    /\ build' = IF o.bld = "any" THEN build ELSE o.bld
    /\ a' = IF o.out.kind = "ok" THEN o.out.val ELSE a
    /\ ret' = IF o.out.kind = "ok" THEN o.out.val ELSE 0
    /\ UNCHANGED <<T, digits, U, b>>

\* (a + b) - b: reached when a + b did not throw
SubBack ==
    /\ op = "+="
    /\ res = "ok"
    /\ \E o \in LaterOutcomes(op_sub(T, "wrap", a, b), op_sub(T, "fold", a, b)) :
        Later("+= -=", b, o)

\* (a - b) + b: reached when a - b did not throw
AddBack ==
    /\ op = "-="
    /\ res = "ok"
    /\ \E o \in LaterOutcomes(op_add(T, "wrap", a, b), op_add(T, "fold", a, b)) :
        Later("-= +=", b, o)

\* a - a: operator - takes a copy of a and subtracts a from it; ret is the
\* raw value of the object returned
SubSelf ==
    /\ op = "init"
    /\ \E o \in Outcomes(op_sub(T, "wrap", a, a), op_sub(T, "fold", a, a)) :
        /\ Called("a - a", o)
        /\ ret' = IF o.out.kind = "ok" THEN o.out.val ELSE 0
        /\ UNCHANGED <<a, b, U>>

NextInverse ==
    \/ AddAssign
    \/ SubAssign
    \/ SubBack
    \/ AddBack
    \/ SubSelf

SpecInverse == Init /\ [][NextInverse]_vars

\* ++a repeated: pa stays the value held before the first, pb is the value
\* held before this one, n counts the increments
IncAgain ==
    /\ op \in {"init", "++"}
    /\ res = "ok"
    /\ n < MaxSteps
    /\ \E o \in LaterOutcomes(op_add(T, "wrap", a, scale_value),
                              op_add(T, "fold", a, scale_value)) :
        Later("++", a, o)

\* --a repeated
DecAgain ==
    /\ op \in {"init", "--"}
    /\ res = "ok"
    /\ n < MaxSteps
    /\ \E o \in LaterOutcomes(op_dec(T, "wrap", a, scale_value),
                              op_dec(T, "fold", a, scale_value)) :
        Later("--", a, o)

\* --a after a ++a that did not throw
DecBack ==
    /\ op = "++"
    /\ res = "ok"
    /\ \E o \in LaterOutcomes(op_dec(T, "wrap", a, scale_value),
                              op_dec(T, "fold", a, scale_value)) :
        Later("++ --", pb, o)

\* ++a after a --a that did not throw
IncBack ==
    /\ op = "--"
    /\ res = "ok"
    /\ \E o \in LaterOutcomes(op_add(T, "wrap", a, scale_value),
                              op_add(T, "fold", a, scale_value)) :
        Later("-- ++", pb, o)

NextIncDec == IncAgain \/ DecAgain \/ DecBack \/ IncBack

SpecIncDec == InitNeg /\ [][NextIncDec]_vars

-----------------------------------------------------------------------------
(* Reference arithmetic in unbounded integers *)

\* num / den rounded to the nearest integer, ties away from zero (den # 0)
RoundHalfAway(num, den) ==
    LET q == Abs(num) \div Abs(den)
        r == Abs(num) % Abs(den)
        m == IF r >= Abs(den) - r THEN q + 1 ELSE q
    IN  IF (num < 0) = (den < 0) THEN m ELSE -m

-----------------------------------------------------------------------------
(* Claims *)

\* C1: a += b fails with OutOfRange exactly when the exact sum pa + pb lies
\* outside the storage range, and otherwise sets the raw value to that sum.
C1_AddExact ==
    op = "+=" =>
        IF InRange(T, pa + pb) THEN res = "ok" /\ a = pa + pb
        ELSE res = "OutOfRange"

\* C2: a -= b fails with OutOfRange exactly when the exact difference pa - pb
\* lies outside the storage range, and otherwise sets the raw value to it.
C2_SubExact ==
    op = "-=" =>
        IF InRange(T, pa - pb) THEN res = "ok" /\ a = pa - pb
        ELSE res = "OutOfRange"

Mutating == {"+=", "-=", "*=", "/=", "++x", "x++", "--x", "x--"}

\* C3: every call of a mutating operator that fails with OutOfRange or
\* InvalidArgument leaves both operands as they were before the call, and a
\* successful one changes only the left operand.
C3_FailureAtomic ==
    op \in Mutating =>
        /\ b = pb
        /\ res \in {"OutOfRange", "InvalidArgument"} => a = pa

\* C3 witness: a multiplication of a nonzero value failed and left it in place
C3_Witness ==
    /\ op = "*="
    /\ res = "OutOfRange"
    /\ pa # 0
    /\ a = pa

\* C4: a *= b sets the raw value to pa * pb / scale rounded half away from
\* zero when that lies in the storage range, and fails with OutOfRange
\* exactly when it does not.
C4_MulExact ==
    op = "*=" =>
        LET e == RoundHalfAway(pa * pb, scale_value)
        IN  IF InRange(T, e) THEN res = "ok" /\ a = e
            ELSE res = "OutOfRange"

\* C5: with pb # 0, a /= b sets the raw value to pa * scale / pb rounded half
\* away from zero when that lies in the storage range, and fails with
\* OutOfRange exactly when it does not.
C5_DivExact ==
    (op = "/=" /\ pb # 0) =>
        LET e == RoundHalfAway(pa * scale_value, pb)
        IN  IF InRange(T, e) THEN res = "ok" /\ a = e
            ELSE res = "OutOfRange"

\* C6: unary minus fails with OutOfRange exactly when the operand is the most
\* negative value, otherwise returns the exact negation; the operand is
\* unchanged in both cases.
C6_NegExact ==
    op = "-x" =>
        /\ a = pa
        /\ IF pa = TMin(T) THEN res = "OutOfRange"
           ELSE res = "ok" /\ ret = -pa

\* C7: a /= b with raw(b) = 0 fails with InvalidArgument for every a, zero
\* included, and leaves a unchanged.
C7_ZeroDivisor ==
    (op = "/=" /\ pb = 0) => (res = "InvalidArgument" /\ a = pa)

\* C7 witness: a zero value divided by a zero divisor
C7_Witness ==
    /\ op = "/="
    /\ pb = 0
    /\ pa = 0
    /\ res = "InvalidArgument"

\* C8: round_div<T>(value, divisor) with a nonzero divisor returns
\* value / divisor rounded to the nearest integer, ties away from zero, for
\* every value and divisor of T.
C8_RoundDivExact ==
    (op = "round_div" /\ pb # 0) =>
        (res = "ok" /\ ret = RoundHalfAway(pa, pb))

\* C9: constructing from an integral source value src (the value b of the
\* source type U) stores src * scale when that lies in the storage range,
\* and fails with ConversionError exactly when it does not.
C9_ConstructExact ==
    op = "ctor" =>
        IF InRange(T, b * scale_value) THEN res = "ok" /\ a = b * scale_value
        ELSE res = "ConversionError" /\ a = pa

\* C10: the explicit cast to an integral type U returns raw / scale rounded
\* half away from zero when that lies in the range of U, fails with
\* ConversionError when it does not, and leaves the value unchanged.
C10_CastExact ==
    op = "cast" =>
        /\ a = pa
        /\ LET e == RoundHalfAway(pa, scale_value)
           IN  IF LimitMin(U) <= e /\ e <= LimitMax(U) THEN res = "ok" /\ ret = e
               ELSE res = "ConversionError"

C12_IncDecExact ==
    op \in {"++x", "x++", "--x", "x--"} =>
        LET e == IF op \in {"++x", "x++"} THEN pa + scale_value ELSE pa - scale_value
        IN  IF InRange(T, e)
            THEN /\ res = "ok"
                 /\ a = e
                 /\ ret = IF op \in {"++x", "--x"} THEN e ELSE pa
            ELSE res = "OutOfRange" /\ a = pa

C14_ZeroMinus ==
    (op = "-=" /\ pa = 0) =>
        IF pb = TMin(T) THEN res = "OutOfRange" /\ a = 0
        ELSE res = "ok" /\ a = -pb

\* the builds the last call may have been made in
BuildsOfCall == IF build = "any" THEN {"wrap", "fold"} ELSE {build}

\* C15: a + b and b + a, and likewise a * b and b * a, either both fail with
\* OutOfRange or both succeed with equal values: the call made has that
\* relation to the call with the operands exchanged, in the same build.
C15_Commutative ==
    op \in {"+=", "*="} =>
        \A bld \in BuildsOfCall :
            LET other == IF op = "+=" THEN op_add(T, bld, pb, pa)
                         ELSE op_mul(T, bld, pb, pa, scale_value)
            IN  \/ res = "OutOfRange" /\ other.kind = "OutOfRange"
                \/ res = "ok" /\ other.kind = "ok" /\ other.val = a

\* C16: for every value a other than the most negative one, -a succeeds
\* with raw value -raw(a), and -(-a) succeeds with the raw value of a.
C16_DoubleNegation ==
    /\ (op = "-x" /\ a # TMin(T)) => (res = "ok" /\ ret = -a)
    /\ (op = "-(-x)" /\ a # TMin(T)) => (res = "ok" /\ ret = a /\ pb = -a)

\* C16 witness: the most positive value was negated twice
C16_Witness ==
    /\ op = "-(-x)"
    /\ a = TMax(T)
    /\ pb = -TMax(T)
    /\ res = "ok"
    /\ ret = a

\* C17: for every a other than the most negative value, a * (-1), (-1) * a
\* and a / (-1) succeed with raw value -raw(a); for the most negative value
\* a * (-1) and a / (-1) fail with OutOfRange.
C17_MinusOne ==
    /\ (op \in {"*=", "/="} /\ pb = -scale_value) =>
           IF pa = TMin(T) THEN res = "OutOfRange" /\ a = pa
           ELSE res = "ok" /\ a = -pa
    /\ (op = "*=" /\ pa = -scale_value /\ pb # TMin(T)) =>
           (res = "ok" /\ a = -pb)

\* C18: the six comparison operators never fail, change neither operand and
\* return the integer comparison of the raw values: exactly one of a < b,
\* a == b, a > b is true, a != b is the negation of a == b, a <= b that of
\* a > b, and a >= b that of a < b.
C18_TotalOrder ==
    op = "compare" =>
        /\ res = "ok" /\ a = pa /\ b = pb
        /\ ("==" \in ret) = (a = b)
        /\ ("<" \in ret) = (a < b)
        /\ (">" \in ret) = (a > b)
        /\ \E c \in {"<", "==", ">"} : ret \cap {"<", "==", ">"} = {c}
        /\ ("!=" \in ret) = ("==" \notin ret)
        /\ ("<=" \in ret) = (">" \notin ret)
        /\ (">=" \in ret) = ("<" \notin ret)

\* C18 witness: the most negative value was compared with itself
C18_Witness ==
    /\ op = "compare"
    /\ a = TMin(T)
    /\ b = TMin(T)
    /\ ret = {"==", "<=", ">="}

\* C20: for every raw value of the storage range, the most-negative one
\* included, and every fraction-digit count, get_parts returns negative =
\* (raw < 0), integerPart = |raw| / scale truncated (so not negative) and
\* fractionalPart = |raw| - integerPart * scale, with 0 <= fractionalPart <
\* scale and integerPart * scale + fractionalPart = |raw|, and leaves the
\* value unchanged.
C20_GetParts ==
    op = "get_parts" =>
        /\ res = "ok"
        /\ a = pa
        /\ ret.negative = (pa < 0)
        /\ ret.integer = Abs(pa) \div scale_value
        /\ ret.integer >= 0
        /\ ret.fractional = Abs(pa) - ret.integer * scale_value
        /\ 0 <= ret.fractional
        /\ ret.fractional < scale_value
        /\ ret.integer * scale_value + ret.fractional = Abs(pa)

\* C19: for every value and every fraction-digit count, 0 included,
\* to_string returns '-' exactly when the raw value is negative, then the
\* decimal digits of integerPart = |raw| / scale, then '.', then the decimal
\* digits of fractionalPart = |raw| mod scale padded on the left with '0' to
\* exactly FractionDigits characters.
C19_ToString ==
    op = "to_string" =>
        LET sign       == IF pa < 0 THEN <<"-">> ELSE <<>>
            integer    == DecimalDigits(Abs(pa) \div scale_value)
            fractional == DecimalDigits(Abs(pa) % scale_value)
            padded     == Zeros(digits - Len(fractional)) \o fractional
        IN  /\ res = "ok"
            /\ a = pa
            /\ Len(padded) = digits
            /\ ret = sign \o integer \o <<".">> \o padded

\* C21: with 2 fraction digits and every storage type, for a = 0.57 (raw 57)
\* the product c = a * 1.11 and the quotient d = a / 1.11 (raw 111) are
\* computed without failure, and d < a, a < c and d < c hold.
C21_MulDivOrder ==
    (a = Raw057 /\ b = Raw111) =>
        /\ op \in {"a*b", "a/b", "order"} => res = "ok"
        /\ op = "order" => ret.holds = {"d<a", "a<c", "d<c"}

\* C21 witness: 0.57 * 1.11 and 0.57 / 1.11 in an 8 bit storage type, whose
\* product of raw values needs the wider type, compared as claimed
C21_Witness ==
    /\ op = "order"
    /\ T = "schar"
    /\ a = Raw057
    /\ b = Raw111
    /\ ret = [c |-> 63, d |-> 51, holds |-> {"d<a", "a<c", "d<c"}]

\* C22: for every storage type and every fraction-digit count n from 0 up to
\* max_decimal_digits_num - 1, decimal_scale<Storage, n> is 10^n exactly (the
\* digit 1 followed by n zeros; 1 for n = 0), is not zero and fits the
\* storage type; max_decimal_digits_num is the number of decimal digits of
\* its argument, for the storage maximum 3 (8 bits) and 5 (16 bits).
C22_DecimalScale ==
    /\ (op = "decimal_scale" /\ digits <= max_decimal_digits_num(T) - 1) =>
           /\ res = "ok"
           /\ DecimalDigits(ret) = <<"1">> \o Zeros(digits)
           /\ digits = 0 => ret = 1
           /\ ret # 0
           /\ InRange(T, ret)
           /\ ret = scale_value
    /\ op = "max_decimal_digits_num" =>
           /\ ret = Len(DecimalDigits(pa))
           /\ pa = TMax(T) => ret = IF Bits(T) = 8 THEN 3 ELSE 5

\* C22 witness: the largest scale of a 16 bit storage type, 10^4
C22_Witness ==
    /\ op = "decimal_scale"
    /\ T = "short"
    /\ digits = max_decimal_digits_num(T) - 1
    /\ res = "ok"
    /\ ret = 10000

\* C23: round<T>(x) of a floating value x = pa / RoundDen returns the integer
\* nearest to x, a tie going to the one farther from zero, whenever that
\* integer is a value of T, and fails with RoundPolicyError whenever it is
\* not (0.5 -> 1, -0.5 -> -1, 1.5 -> 2, -1.5 -> -2, 0.499 -> 0, -2.1 -> -2).
C23_RoundNearest ==
    op = "round" =>
        LET nearest == CHOOSE k \in (CDiv(pa, RoundDen) - 1) .. (CDiv(pa, RoundDen) + 1) :
                           /\ 2 * Abs(k * RoundDen - pa) <= RoundDen
                           /\ 2 * Abs(k * RoundDen - pa) = RoundDen
                                  => Abs(k * RoundDen) > Abs(pa)
        IN  /\ IF InRange(T, nearest) THEN res = "ok" /\ ret = nearest
               ELSE res = "RoundPolicyError"
            /\ pa = 500 => nearest = 1
            /\ pa = -500 => nearest = -1
            /\ pa = 1500 => nearest = 2
            /\ pa = -1500 => nearest = -2
            /\ pa = 499 => nearest = 0
            /\ pa = -2100 => nearest = -2

\* C23 witness: a tie just beyond the largest value of T was rejected
C23_Witness ==
    /\ op = "round"
    /\ pa = TMax(T) * RoundDen + RoundDen \div 2
    /\ res = "RoundPolicyError"

\* C25: round_div tests the divisor before the value: round_div(value, 0)
\* fails with InvalidArgument for every value, 0 included, and
\* round_div(0, x) returns 0 for every nonzero x of either sign.
C25_DivisorFirst ==
    op = "round_div" =>
        /\ pb = 0 => res = "InvalidArgument"
        /\ (pa = 0 /\ pb # 0) => (res = "ok" /\ ret = 0)

\* C25 witness: round_div(0, 0) was rejected
C25_Witness ==
    /\ op = "round_div"
    /\ pa = 0
    /\ pb = 0
    /\ res = "InvalidArgument"

Sign(x) == IF x < 0 THEN -1 ELSE IF x > 0 THEN 1 ELSE 0

\* C24: for every triple (value1, value2, divisor) of the storage range with
\* divisor # 0, a value that mult_div returns is value1 * value2 / divisor
\* rounded half away from zero, computed in unbounded integers without any
\* reduction; after each of the two reductions the operands and the divisor
\* have the signs they had and the same rounded quotient.
C24_ReductionEquivalence ==
    /\ (op = "mult_div" /\ res = "ok" /\ ret.arg # 0) =>
           ret.result = RoundHalfAway(a * b, ret.arg)
    /\ op \in {"reduced1", "reduced2"} =>
           /\ Sign(ret.value1) = Sign(a)
           /\ Sign(ret.value2) = Sign(b)
           /\ Sign(ret.divisor) = Sign(ret.arg)
           /\ RoundHalfAway(ret.value1 * ret.value2, ret.divisor)
                  = RoundHalfAway(a * b, ret.arg)

\* C30: in every call of mult_div with a nonzero divisor and nonzero
\* operands, each gcd returns a positive common divisor of its two
\* arguments, both reductions divide exactly, the reduced value1 and the
\* reduced divisor stay nonzero, and no division faults: neither in a
\* reduction, nor in the test mult_result / value1, nor in round_div.
C30_GcdPositive ==
    (a # 0 /\ b # 0 /\ ret.arg # 0) =>
        /\ res # "Trap"
        /\ ret.value1 # 0
        /\ ret.divisor # 0
        /\ ret.common1 # 0 =>
               /\ ret.common1 > 0
               /\ a % ret.common1 = 0
               /\ ret.arg % ret.common1 = 0
               /\ ret.value1 * ret.common1 = a
        /\ ret.common2 # 0 =>
               /\ ret.common2 > 0
               /\ b % ret.common2 = 0
               /\ ret.value2 * ret.common2 = b
               /\ ret.divisor * ret.common2 * ret.common1 = ret.arg

\* C26: when the product of the reduced operands overflows the storage type,
\* mult_div turns to the overflow handler; with a wider next type the handler
\* returns the exact product, and the call returns that product divided by
\* the divisor, rounded half away from zero, if it is in the storage range
\* and fails with OutOfRange if not; at the widest tier, with no wider type,
\* the call fails with OutOfRange; and a product that goes on to round_div
\* without the handler is the exact one, never a wrapped one.
C26_WideningFallback ==
    [][/\ (op = "reduced2" /\ ~InRange(T, ret.value1 * ret.value2)) =>
              op' = "overflow"
       /\ op = "overflow" =>
              IF U = "none" THEN op' = "mult_div" /\ res' = "OutOfRange"
              ELSE op' = "widened" /\ ret'.product = ret.value1 * ret.value2
       /\ op = "widened" =>
              LET e == RoundHalfAway(ret.product, ret.divisor)
              IN  IF InRange(T, e) THEN res' = "ok" /\ ret'.result = e
                  ELSE res' = "OutOfRange"
       /\ op' = "multiplied" => ret'.product = ret.value1 * ret.value2
      ]_vars

\* the result of the last operator of a sequence in unbounded integers, with
\* * and / rounded half away from zero; a division by 0 has none
RunDefined == ~(op = "a /= x" /\ pb = 0)
RunExact ==
    CASE op = "a += x" -> pa + pb
      [] op = "a -= x" -> pa - pb
      [] op = "a *= x" -> RoundHalfAway(pa * pb, scale_value)
      [] op = "a /= x" -> RoundHalfAway(pa * scale_value, pb)
      [] op = "++a"    -> pa + scale_value
      [] op = "--a"    -> pa - scale_value
      [] op = "a = -a" -> -pa

\* C27: from a default constructed value, after every step of any sequence
\* of +=, -=, *=, /=, ++, -- and a = -a with in-range operands, the raw value
\* is the one of a reference that computes the step in unbounded integers and
\* rejects every result out of the storage range: the exact result when it is
\* in range, and the value held before, after a failure, when it is not.
C27_RefinesReference ==
    op # "init" =>
        IF RunDefined /\ InRange(T, RunExact)
        THEN res = "ok" /\ a = RunExact
        ELSE res \in {"OutOfRange", "InvalidArgument"} /\ a = pa

\* C28: when a + b succeeds, (a + b) - b succeeds with the raw value of a;
\* when a - b succeeds, (a - b) + b succeeds with the raw value of a; and
\* a - a succeeds with raw value 0 for every a.
C28_AddSubInverse ==
    /\ op \in {"+= -=", "-= +="} => (res = "ok" /\ a = pa)
    /\ op = "a - a" => (res = "ok" /\ ret = 0)

\* C29: when ++a succeeds, a following --a succeeds and restores the raw
\* value held before, and likewise ++a after --a; after n successful
\* increments the raw value is n * scale above the one held at the start
\* (and after n successful decrements n * scale below it).
C29_IncDecInverse ==
    /\ op \in {"++ --", "-- ++"} => (res = "ok" /\ a = pb)
    /\ (op = "++" /\ res = "ok") => a = pa + n * scale_value
    /\ (op = "--" /\ res = "ok") => a = pa - n * scale_value

=============================================================================
